---- MODULE Spec2Model ----
(***************************************************************************)
(* WeatherBot, resultv2.py and the earlier resultv1.py: the subscriber     *)
(* dictionary `users`, telebot's next-step handler registry, the message   *)
(* handlers and the periodic broadcast of the scheduler thread.            *)
(*                                                                         *)
(* The chat transport (bot.send_message), the weather provider (the HTTP   *)
(* call inside get_weather) and the clock are the environment: every call  *)
(* to them takes its outcome from a choice made inside the action, and the *)
(* calls a step made are recorded, in order, in `trace`.                   *)
(*                                                                         *)
(* telebot calls the handlers in worker threads: the polling thread pops   *)
(* the chat's next-step handlers, hands the calls over and takes the next  *)
(* message, so that calls overlap, of one chat too (ThreadPool, Worker).   *)
(***************************************************************************)
EXTENDS Integers, Sequences, FiniteSets, TLC

\* ------------------------------------------------------------------ bounds
NumChats == 2
\* At most MaxOverlap handler calls are handed to the worker threads and not
\* yet run.
MaxOverlap == 2

Chats == 1..NumChats

\* ------------------------------------------------------- program constants
DEFAULT_LANGUAGE == "ru"

\* ------------------------------------------------------------------ inputs
\* message.text of a non-text message (a photo, a sticker) is None.
NoText == "<None>"

\* The message texts the chats send.  "Russkiy"/"russkiy" stand for the
\* Cyrillic button label and its lower case.
Texts ==
    { "/start", "/help", "/stop", "/now", "/change", "/language", "/foo",
      " Paris ", "London", "Atlantis", "English", "Russkiy", NoText }

\* The cities the weather provider answers with cod 200.
KnownCities == { "Paris", "London" }

\* str.strip() on the texts above.
Strip(t) == IF t = " Paris " THEN "Paris" ELSE t

\* str.lower() on the texts above.
Lower(t) ==
    CASE t = "English" -> "english"
      [] t = "Russkiy" -> "russkiy"
      [] t = " Paris " -> " paris "
      [] t = "London"  -> "london"
      [] t = "Atlantis" -> "atlantis"
      [] OTHER -> t

\* A lang_map that stores the label chosen, not its language code.
lang_map_Raw == [ k \in { "russkiy", "english" } |-> k ]
\* lang_map of process_language_selection.
lang_map == [ k \in { "russkiy", "english" } |->
                IF k = "russkiy" THEN "ru" ELSE "en" ]

\* telebot.util.extract_command: the command word of a text, "" when the
\* text is no command.
extract_command(t) ==
    CASE t = "/start"    -> "start"
      [] t = "/help"     -> "help"
      [] t = "/stop"     -> "stop"
      [] t = "/now"      -> "now"
      [] t = "/change"   -> "change"
      [] t = "/language" -> "language"
      [] t = "/foo"      -> "foo"
      [] OTHER -> ""

\* ------------------------------------------------------------- environment
\* What one call of get_weather can end in: the report; WeatherServiceError
\* with the provider's message (cod is not 200) or the text of the
\* connection error in it; WeatherServiceError with the fixed "data
\* processing" text (cod 200 and a field missing); or another exception (a
\* body that is no JSON object).  Only a known city is answered with cod 200.
WeatherOutcomes(city) ==
    IF city \in KnownCities
    THEN { "ok", "WeatherServiceError", "WeatherServiceError(data)", "Exception" }
    ELSE { "WeatherServiceError", "Exception" }

\* except WeatherServiceError catches the outcome.
IsServiceError(w) == w \in { "WeatherServiceError", "WeatherServiceError(data)" }

\* get_weather(city, language) under provider answer w.
get_weather(city, language, w) ==
    [ ev |-> "get_weather", to |-> 0, kind |-> w, city |-> city,
      lang |-> language, ok |-> (w = "ok"), raw |-> FALSE ]

\* bot.send_message(chat_id, text): s is whether the transport accepts it.
\* kind names the text; city/lang are what the text was built from.  Of the
\* texts, only the error report of an API or connection error
\* ("weather_error") carries text of the provider or of the connection; the
\* error report of a missing field ("weather_data_error") carries the fixed
\* text of the code.
send_message(chat_id, kind, city, language, s) ==
    [ ev |-> "send_message", to |-> chat_id, kind |-> kind, city |-> city,
      lang |-> language, ok |-> s, raw |-> (kind = "weather_error") ]

\* ------------------------------------------------------------------- state
VARIABLES
    users,      \* the dict users, in insertion order: <<[chat_id, ref], ...>>
    heap,       \* the record objects users' values refer to
    next_step,  \* telebot's next-step handlers of each chat, as registered
    waiting,    \* per chat, the handler calls telebot has handed to its
                \* worker threads and that have not yet run to their end
    touched,    \* resultv1: users lost or gained a key since the running
                \* loop made its iterator
    sched_pc,   \* where the scheduler thread is
    cycle,      \* users.copy() of the running broadcast, with each result
                \* and, per entry, what the record was when the copy was taken
                \* (snap) and when it was last the chat's record (stored)
    idx,        \* position of the for loop in cycle
    trace,      \* the external calls of the last step, in order
    last,       \* the last step: the handler or scheduler step, its chat and text
    prev        \* the chats the last completed broadcast attempted, while
                \* the keys of users are what they were when it ended

vars == << users, heap, next_step, waiting, touched, sched_pc, cycle, idx,
          trace, last, prev >>

\* ---------------------------------------------------------- dict and heap
NoRef == 0
\* The objects of one chat that can be alive at once: its record in users,
\* the one the running copy holds, and one for every waiting call.
RefsPerChat == MaxOverlap + 2
Refs == 1..(RefsPerChat * NumChats)
Free == [ city |-> "", language |-> "" ]

DictHas(d, k) == \E i \in 1..Len(d) : d[i].chat_id = k
DictGet(d, k) == d[CHOOSE i \in 1..Len(d) : d[i].chat_id = k].ref
DictSet(d, k, r) ==
    IF DictHas(d, k)
    THEN [ i \in 1..Len(d) |->
             IF d[i].chat_id = k THEN [ chat_id |-> k, ref |-> r ] ELSE d[i] ]
    ELSE Append(d, [ chat_id |-> k, ref |-> r ])
\* The keys of a dict, in order.
Keys(d) == [ i \in 1..Len(d) |-> d[i].chat_id ]
\* A /stop that leaves out `del users[chat_id]`.
DictDel_Keeps(d, k) == d
DictDel(d, k) == SelectSeq(d, LAMBDA e : e.chat_id # k)

\* The objects still referred to: by users, by entries of the running
\* copy the loop has not reached yet, or by the local user_info of a call
\* of send_current_weather that is waiting in wt.
Reachable(u, cyc, wt) ==
    { u[i].ref : i \in 1..Len(u) } \cup
    { cyc[i].ref : i \in { j \in 1..Len(cyc) : cyc[j].ref # NoRef } } \cup
    { wt[e[1]][e[2]].user_info :
        e \in { x \in Chats \X (1..MaxOverlap) : x[2] <= Len(wt[x[1]]) } }

Collect(h, u, cyc, wt) ==
    LET live == Reachable(u, cyc, wt)
    IN  [ r \in Refs |-> IF r \in live THEN h[r] ELSE Free ]

\* A fresh object for chat k's new record: the first name of the chat that
\* neither the running copy nor a waiting call holds.  The record it
\* replaces in users is dropped unless one of them holds it.
Alloc(u, cyc, wt, k) ==
    LET held == Reachable(<< >>, cyc, wt)
        free == { r \in ((k - 1) * RefsPerChat + 1)..(k * RefsPerChat) :
                    r \notin held }
    IN  CHOOSE r \in free : \A q \in free : r <= q

\* The store as the claims speak of it: each chat's record, or Free when the
\* chat is not in users.
Store(u, h) ==
    [ c \in Chats |-> IF DictHas(u, c) THEN h[DictGet(u, c)] ELSE Free ]
Subscribed(u) == { c \in Chats : DictHas(u, c) }

\* --------------------------------------------------------------- delivery
\* send_weather_update(chat_id, city, language): the calls it makes, and
\* whether an exception leaves it.  w answers the fetch, s the one send.
send_weather_update(chat_id, city, language, w, s) ==
    LET fetch == get_weather(city, language, w)
    IN  CASE w = "ok" ->
               \* a failing send is caught by `except Exception` and logged
               [ trace |-> << fetch,
                              send_message(chat_id, "weather", city, language, s) >>,
                 raised |-> FALSE ]
          [] IsServiceError(w) ->
               \* the error report is sent from inside the except clause: a
               \* failure of that send leaves the function
               [ trace |-> << fetch,
                              send_message(chat_id,
                                           IF w = "WeatherServiceError"
                                           THEN "weather_error" ELSE "weather_data_error",
                                           city, language, s) >>,
                 raised |-> ~s ]
          [] OTHER ->
               [ trace |-> << fetch >>, raised |-> FALSE ]

\* ------------------------------------------------- telebot's dispatching
Idle(c) == next_step[c] = << >>
\* next_step_backend.get_handlers pops the chat's handlers before they run.
Popped(c) == [ next_step EXCEPT ![c] = << >> ]
\* bot.register_next_step_handler(message, h): h is appended to the chat's
\* handlers, in registry ns.
RegisteredIn(ns, c, h) == [ ns EXCEPT ![c] = Append(@, h) ]
Registered(c, h) == RegisteredIn(next_step, c, h)

\* The handler calls that telebot has made and that have not yet run to
\* their end, over all chats.
TotalWaiting ==
    Cardinality({ e \in Chats \X (1..MaxOverlap) : e[2] <= Len(waiting[e[1]]) })

\* A sequence without its k-th element.
Without(q, k) == [ i \in 1..(Len(q) - 1) |-> IF i < k THEN q[i] ELSE q[i + 1] ]

\* The running copy after a write of a handler: the copy itself is not
\* written; an entry whose object is still the chat's record in users notes
\* what that record now is.
Track(cyc, u, h) ==
    [ i \in 1..Len(cyc) |->
        IF /\ cyc[i].ref # NoRef
           /\ DictHas(u, cyc[i].chat_id)
           /\ DictGet(u, cyc[i].chat_id) = cyc[i].ref
        THEN [ cyc[i] EXCEPT !.stored = h[cyc[i].ref] ]
        ELSE cyc[i] ]

\* No completed broadcast to compare the next one with: none has run, or
\* the keys of users have changed since.
NoRun == << 0 >>

\* What every handler step does to the state: the handler's writes, the
\* calls it made (recorded when the specification observes the handlers'
\* calls, obs), the calls wt that wait after it, and the scheduler thread
\* left where it is.
HandlerStep(op, c, t, u, h, ns, wt, tr, obs) ==
    /\ users' = u
    /\ heap' = Collect(h, u, cycle, wt)
    /\ waiting' = wt
    /\ cycle' = Track(cycle, u, h)
    /\ prev' = IF Keys(u) = Keys(users) THEN prev ELSE NoRun
    /\ next_step' = ns
    /\ trace' = IF obs THEN tr ELSE << >>
    /\ last' = IF obs THEN [ op |-> op, chat_id |-> c, text |-> t ]
                      ELSE [ op |-> "message", chat_id |-> 0, text |-> "" ]
    /\ UNCHANGED << sched_pc, idx >>

\* ---------------------------------------------------------------- handlers
\* What a call of each handler does from the registry ns it finds, taken at
\* the moment it reads or writes users: what it read from the network
\* before, and what it sends after, changes nothing else.  A handler that
\* reads users or a record at two moments with a call to the network
\* between them takes two steps (send_current_weather).  wt are the calls
\* that wait when the step is over.  The answers of the
\* environment are chosen where the handler makes the call: s, s1, ...
\* answer a send, w, w1, ... a fetch.

\* /start, /help
send_welcome(c, t, ns, wt, obs) ==
    \E s1 \in BOOLEAN :
         LET m1 == send_message(c, "welcome", "", "", s1)
         IN  IF ~s1
             THEN HandlerStep("send_welcome", c, t, users, heap, ns, wt, << m1 >>, obs)
             ELSE \E s2 \in BOOLEAN :
                    HandlerStep("send_welcome", c, t, users, heap,
                                IF s2 THEN RegisteredIn(ns, c, "process_city_input")
                                      ELSE ns, wt,
                                << m1, send_message(c, "ask_city", "", "", s2) >>, obs)

\* A record written without its language.
NewRecord_NoLanguage(city) == [ city |-> city, language |-> "" ]
\* users[message.chat.id] = {"city": city, "language": DEFAULT_LANGUAGE}
NewRecord(city) == [ city |-> city, language |-> DEFAULT_LANGUAGE ]

\* The registry after the retry prompt of a city that was not found.
AfterCityNotFound(ns, c) == RegisteredIn(ns, c, "process_city_input")

\* The next-step handler of AwaitingCity.
process_city_input(c, t, ns, wt, obs) ==
    LET op == "process_city_input"
           city == Strip(t)
       IN  IF t = NoText
           THEN \* None.strip(): AttributeError, caught by `except Exception`
                \E s3 \in BOOLEAN :
                  HandlerStep(op, c, t, users, heap, ns, wt,
                              << send_message(c, "generic_error", "", "", s3) >>, obs)
           ELSE
           \E w1 \in WeatherOutcomes(city) :
             LET fetch == get_weather(city, DEFAULT_LANGUAGE, w1)
             IN  CASE w1 = "ok" ->
                       LET r == Alloc(users, cycle, wt, c)
                           u == DictSet(users, c, r)
                           h == [ heap EXCEPT ![r] = NewRecord(city) ]
                       IN  \E s1 \in BOOLEAN :
                             LET conf == send_message(c, "city_ok", city, "", s1)
                             IN  IF ~s1
                                 THEN \* the send raised: `except Exception`
                                      \E s3 \in BOOLEAN :
                                        HandlerStep(op, c, t, u, h, ns, wt,
                                          << fetch, conf,
                                             send_message(c, "generic_error", "", "", s3) >>, obs)
                                 ELSE \* send_weather_update(chat, city)
                                      \E w2 \in WeatherOutcomes(city), s2 \in BOOLEAN :
                                        LET upd == send_weather_update(c, city,
                                                       DEFAULT_LANGUAGE, w2, s2)
                                        IN  IF upd.raised
                                            THEN \E s3 \in BOOLEAN :
                                                   HandlerStep(op, c, t, u, h, ns, wt,
                                                     << fetch, conf >> \o upd.trace \o
                                                     << send_message(c, "generic_error",
                                                                     "", "", s3) >>, obs)
                                            ELSE HandlerStep(op, c, t, u, h, ns, wt,
                                                     << fetch, conf >> \o upd.trace, obs)
                   [] IsServiceError(w1) ->
                       \E s1 \in BOOLEAN :
                         \* a send that raises inside the except clause leaves the
                         \* handler before it registers itself again
                         HandlerStep(op, c, t, users, heap,
                                     IF s1 THEN AfterCityNotFound(ns, c) ELSE ns, wt,
                                     << fetch, send_message(c, "city_not_found", t, "", s1) >>, obs)
                   [] OTHER ->
                       \E s3 \in BOOLEAN :
                         HandlerStep(op, c, t, users, heap, ns, wt,
                                     << fetch, send_message(c, "generic_error", "", "", s3) >>, obs)

\* /stop
stop_updates(c, t, ns, wt, obs) ==
    \E s \in BOOLEAN :
         IF DictHas(users, c)
         THEN HandlerStep("stop_updates", c, t, DictDel(users, c), heap, ns, wt,
                          << send_message(c, "unsubscribed", "", "", s) >>, obs)
         ELSE HandlerStep("stop_updates", c, t, users, heap, ns, wt,
                          << send_message(c, "not_subscribed", "", "", s) >>, obs)

\* A call as telebot hands it to a worker thread, and a call of
\* send_current_weather that has bound its local user_info to the chat's
\* record object and waits for its "requesting" message to be sent.
Call(f, t) == [ f |-> f, text |-> t, user_info |-> NoRef ]
Requesting(t, r) == [ f |-> "send_current_weather", text |-> t, user_info |-> r ]

\* /now, up to the send of the "requesting" message: the chat is looked up
\* in users and user_info is bound to its record object.  The call then
\* waits in bot.send_message while the other threads run.
send_current_weather(c, t, ns, wt, obs) ==
    LET op == "send_current_weather"
       IN  IF ~DictHas(users, c)
           THEN \E s \in BOOLEAN :
                  HandlerStep(op, c, t, users, heap, ns, wt,
                              << send_message(c, "need_city_start", "", "", s) >>, obs)
           ELSE
           \E s0 \in BOOLEAN :
             LET wait == send_message(c, "requesting", "", "", s0)
             IN  IF ~s0
                 THEN \E s3 \in BOOLEAN :
                        HandlerStep(op, c, t, users, heap, ns, wt,
                          << wait, send_message(c, "now_failed", "", "", s3) >>, obs)
                 ELSE HandlerStep(op, c, t, users, heap, ns,
                                  [ wt EXCEPT ![c] =
                                      Append(@, Requesting(t, DictGet(users, c))) ],
                                  << wait >>, obs)

\* /now, after the "requesting" message was sent: the city and the language
\* are read from the object user_info is bound to, as they are by now, and
\* given to send_weather_update.
send_current_weather_Update(c, t, r, ns, wt, obs) ==
    LET op == "send_current_weather"
        user_info == heap[r]
    IN  \E w \in WeatherOutcomes(user_info.city), s \in BOOLEAN :
          LET upd == send_weather_update(c, user_info.city, user_info.language, w, s)
          IN  IF upd.raised
              THEN \E s3 \in BOOLEAN :
                     HandlerStep(op, c, t, users, heap, ns, wt,
                       upd.trace \o << send_message(c, "now_failed", "", "", s3) >>, obs)
              ELSE HandlerStep(op, c, t, users, heap, ns, wt, upd.trace, obs)

\* /change
change_city(c, t, ns, wt, obs) ==
    \E s \in BOOLEAN :
         HandlerStep("change_city", c, t, users, heap,
                     IF s THEN RegisteredIn(ns, c, "process_city_input") ELSE ns, wt,
                     << send_message(c, "ask_new_city", "", "", s) >>, obs)

\* /language
change_language(c, t, ns, wt, obs) ==
    \E s \in BOOLEAN :
         HandlerStep("change_language", c, t, users, heap,
                     IF s THEN RegisteredIn(ns, c, "process_language_selection") ELSE ns, wt,
                     << send_message(c, "ask_language", "", "", s) >>, obs)

\* A record put into users before its language is written.
BareRecord_Partial(language) == [ city |-> "", language |-> "" ]
\* users[message.chat.id] = {"city": "", "language": lang_map[selected]}
BareRecord(language) == [ city |-> "", language |-> language ]

\* A language change that writes the record anew, as for a chat that has none.
SetLanguage_Recreates(h, r, language) ==
    [ h EXCEPT ![r] = [ city |-> "", language |-> language ] ]
\* users[message.chat.id]["language"] = lang_map[selected]
SetLanguage(h, r, language) == [ h EXCEPT ![r].language = language ]

\* The registry after a text that is no language choice: the handler was
\* popped and returns without registering itself again.
AfterInvalidLanguage(ns, c) == ns

\* The next-step handler of AwaitingLanguage.
process_language_selection(c, t, ns, wt, obs) ==
    LET op == "process_language_selection"
           selected == Lower(t)
       IN  IF t = NoText
           THEN \* None.lower(): AttributeError leaves the handler
                HandlerStep(op, c, t, users, heap, ns, wt, << >>, obs)
           ELSE
           \E s \in BOOLEAN :
             IF selected \notin DOMAIN lang_map
             THEN HandlerStep(op, c, t, users, heap, AfterInvalidLanguage(ns, c), wt,
                              << send_message(c, "bad_language", "", "", s) >>, obs)
             ELSE IF ~DictHas(users, c)
             THEN LET r == Alloc(users, cycle, wt, c)
                  IN  HandlerStep(op, c, t, DictSet(users, c, r),
                                  [ heap EXCEPT ![r] = BareRecord(lang_map[selected]) ],
                                  ns, wt,
                                  << send_message(c, "need_city_after_language", "", "", s) >>, obs)
             ELSE HandlerStep(op, c, t, users,
                              SetLanguage(heap, DictGet(users, c), lang_map[selected]),
                              ns, wt,
                              << send_message(c, "language_changed", t, "", s) >>, obs)

\* Every other text message
handle_unknown(c, t, ns, wt, obs) ==
    \E s \in BOOLEAN :
         HandlerStep("handle_unknown", c, t, users, heap, ns, wt,
                     << send_message(c, "unknown_command", "", "", s) >>, obs)

\* ------------------------------------------------ the scheduler (resultv2)
\* A loop that passes over the next subscriber after an exception.
NextIndex_SkipsNext(i, n, raised) == IF raised THEN i + 2 ELSE i + 1
\* A loop with no try/except inside it: an exception ends the loop.
NextIndex_Aborts(i, n, raised) == IF raised THEN n + 1 ELSE i + 1
\* The for loop of send_updates_to_all_users after one subscriber: the
\* try/except inside the loop catches whatever send_weather_update raised.
NextIndex(i, n, raised) == i + 1

\* How one delivery attempt ended.
Result(w, s) == IF w = "ok" /\ s THEN "sent" ELSE "failed"

\* A scheduler that unsubscribes the chat whose delivery failed.
SchedStep_Unsubscribes(op, c, pc, cyc, i, tr, pv) ==
    /\ sched_pc' = pc
    /\ prev' = pv
    /\ cycle' = cyc
    /\ idx' = i
    /\ users' = IF op = "deliver" /\ Len(tr) >= 1 /\ ~tr[Len(tr)].ok
                THEN DictDel(users, c) ELSE users
    /\ heap' = Collect(heap, users', cyc, waiting)
    /\ trace' = tr
    /\ last' = [ op |-> op, chat_id |-> c, text |-> "" ]
    /\ UNCHANGED << next_step, waiting >>
SchedStep(op, c, pc, cyc, i, tr, pv) ==
    /\ sched_pc' = pc
    /\ prev' = pv
    /\ cycle' = cyc
    /\ idx' = i
    /\ heap' = Collect(heap, users, cyc, waiting)
    /\ trace' = tr
    /\ last' = [ op |-> op, chat_id |-> c, text |-> "" ]
    /\ UNCHANGED << users, next_step, waiting >>

\* schedule.run_pending() finds the job due: users.copy() is taken, a
\* shallow copy whose values are the record objects of users.
BroadcastStart ==
    /\ sched_pc = "sleep"
    /\ SchedStep("send_updates_to_all_users", 0, "for",
                 [ i \in 1..Len(users) |->
                     [ chat_id |-> users[i].chat_id, ref |-> users[i].ref,
                       res |-> "pending",
                       snap |-> heap[users[i].ref],
                       stored |-> heap[users[i].ref] ] ],
                 1, << >>, prev)

\* The chats of a copy a delivery was attempted for, in order.
Attempted(cyc) == Keys(SelectSeq(cyc, LAMBDA e : e.res # "pending"))

\* One iteration of the for loop.
Deliver ==
    /\ sched_pc = "for" /\ idx \in 1..Len(cycle)
    /\ LET chat_id == cycle[idx].chat_id
           user_info == heap[cycle[idx].ref]
       IN  \E w \in WeatherOutcomes(user_info.city), s \in BOOLEAN :
             LET upd == send_weather_update(chat_id, user_info.city,
                                            user_info.language, w, s)
             IN SchedStep("deliver", chat_id, "for",
                        [ cycle EXCEPT ![idx] = [ chat_id |-> chat_id, ref |-> NoRef,
                                                  res |-> Result(w, s),
                                                  snap |-> Free,
                                                  stored |-> Free ] ],
                        NextIndex(idx, Len(cycle), upd.raised), upd.trace, prev)

\* The loop is over: "Scheduled updates completed", back to run_pending/sleep.
BroadcastEnd ==
    /\ sched_pc = "for" /\ idx > Len(cycle)
    /\ SchedStep("completed", 0, "sleep", << >>, 0, << >>,
                 IF Keys(users) = Keys(cycle) THEN Attempted(cycle) ELSE NoRun)

\* ------------------------------------------------------------ specification
Init ==
    /\ users = << >>
    /\ heap = [ r \in Refs |-> Free ]
    /\ next_step = [ c \in Chats |-> << >> ]
    /\ waiting = [ c \in Chats |-> << >> ]
    /\ touched = FALSE
    /\ sched_pc = "sleep"
    /\ cycle = << >>
    /\ idx = 0
    /\ trace = << >>
    /\ last = [ op |-> "init", chat_id |-> 0, text |-> "" ]
    /\ prev = NoRun

\* The handlers telebot calls for a message of chat c with text t: the
\* chat's next-step handlers when it has any, and otherwise the first
\* message handler whose filter the text passes.
Calls(c, t) ==
    IF ~Idle(c) THEN next_step[c]
    ELSE IF t = NoText THEN << >>
    ELSE CASE extract_command(t) \in { "start", "help" } -> << "send_welcome" >>
           [] extract_command(t) = "stop" -> << "stop_updates" >>
           [] extract_command(t) = "now" -> << "send_current_weather" >>
           [] extract_command(t) = "change" -> << "change_city" >>
           [] extract_command(t) = "language" -> << "change_language" >>
           [] OTHER -> << "handle_unknown" >>

\* The call of a handler for a message of chat c, from where it stands;
\* wt are the calls that wait beside it.
Handle(call, c, ns, wt, obs) ==
    LET f == call.f
        t == call.text
    IN  \/ f = "send_welcome" /\ send_welcome(c, t, ns, wt, obs)
        \/ f = "process_city_input" /\ process_city_input(c, t, ns, wt, obs)
        \/ f = "stop_updates" /\ stop_updates(c, t, ns, wt, obs)
        \/ /\ f = "send_current_weather" /\ call.user_info = NoRef
           /\ send_current_weather(c, t, ns, wt, obs)
        \/ /\ f = "send_current_weather" /\ call.user_info # NoRef
           /\ send_current_weather_Update(c, t, call.user_info, ns, wt, obs)
        \/ f = "change_city" /\ change_city(c, t, ns, wt, obs)
        \/ f = "change_language" /\ change_language(c, t, ns, wt, obs)
        \/ f = "process_language_selection" /\ process_language_selection(c, t, ns, wt, obs)
        \/ f = "handle_unknown" /\ handle_unknown(c, t, ns, wt, obs)

\* telebot takes a message: it pops the chat's handlers and gives each call
\* to its pool of worker threads; the polling thread goes on to the next
\* message.  calls[c, t] are the handlers it calls for text t of chat c,
\* for the chats and the texts that send messages.
ThreadPool(calls, obs) ==
    \E m \in DOMAIN calls :
        LET c == m[1]
            t == m[2]
        IN  /\ calls[m] # << >>
            /\ TotalWaiting + Len(calls[m]) <= MaxOverlap
            /\ next_step' = Popped(c)
            /\ waiting' = [ waiting EXCEPT ![c] =
                              @ \o [ i \in 1..Len(calls[m]) |->
                                       Call(calls[m][i], t) ] ]
            /\ trace' = << >>
            /\ last' = IF obs THEN [ op |-> "process_new_messages", chat_id |-> c,
                                     text |-> t ]
                              ELSE [ op |-> "message", chat_id |-> 0, text |-> "" ]
            /\ UNCHANGED << users, heap, cycle, prev, sched_pc, idx, touched >>

\* A worker thread runs one of the calls telebot made, against the registry
\* as it is by then.
Worker(obs) ==
    \E c \in Chats :
        \E k \in 1..Len(waiting[c]) :
            /\ Handle(waiting[c][k], c, next_step,
                      [ waiting EXCEPT ![c] = Without(@, k) ], obs)
            /\ UNCHANGED touched

Scheduler ==
    \/ BroadcastStart /\ UNCHANGED touched
    \/ Deliver /\ UNCHANGED touched
    \/ BroadcastEnd /\ UNCHANGED touched

\* The handlers telebot calls for the messages that the chats of C send
\* with the texts of T.
CallsOf(C, T) == [ m \in C \X T |-> Calls(m[1], m[2]) ]

\* The message loop alone (run_bot), its calls observed.
HandlerTexts ==
    { "/start", "/stop", "/change", "/language", "/foo", " Paris ", "English" }
NextHandlers == ThreadPool(CallsOf(Chats, HandlerTexts), TRUE) \/ Worker(TRUE)
SpecHandlers == Init /\ [][NextHandlers]_vars

\* The message loop alone, its calls observed: the chats change their city
\* and choose either language.
ChoiceTexts == { "/change", "/language", " Paris ", "English", "Russkiy" }
NextChoice == ThreadPool(CallsOf(Chats, ChoiceTexts), TRUE) \/ Worker(TRUE)
SpecChoice == Init /\ [][NextChoice]_vars

\* The message loop alone, its calls observed: one chat asks for the weather
\* while it registers and changes its record and unsubscribes.
NowTexts == { "/now", "/stop", "/change", "/language", " Paris ", "English" }
NextNow == ThreadPool(CallsOf({ 1 }, NowTexts), TRUE) \/ Worker(TRUE)
SpecNow == Init /\ [][NextNow]_vars

\* Both threads: the scheduler's calls are observed; the chats send the
\* texts that add and remove subscribers.
BroadcastTexts == { "/start", "/stop", " Paris " }
NextBroadcast ==
    ThreadPool(CallsOf(Chats, BroadcastTexts), FALSE) \/ Worker(FALSE) \/ Scheduler
SpecBroadcast == Init /\ [][NextBroadcast]_vars

\* Both threads, one chat sending every command, a city and a language.
LanguageTexts == { "/start", "/stop", "/now", "/change", "/language", " Paris ", "English" }
NextBroadcastLanguage ==
    ThreadPool(CallsOf({ 1 }, LanguageTexts), FALSE) \/ Worker(FALSE) \/ Scheduler
SpecBroadcastLanguage == Init /\ [][NextBroadcastLanguage]_vars

\* ------------------------------------------------------------- resultv1.py
\* The first version of the bot: /start, the city and /stop, no validation
\* of the city, and a scheduler with no try/except anywhere.

\* The record of resultv1: users[message.chat.id] = {"city": city}
NewRecord_v1(city) == [ city |-> city ]

\* start (resultv1)
start_v1(c, t, ns, wt) ==
    \E s1 \in BOOLEAN :
      LET m1 == send_message(c, "welcome", "", "", s1)
      IN  IF ~s1
          THEN HandlerStep("start_v1", c, t, users, heap, ns, wt, << m1 >>, TRUE)
          ELSE \E s2 \in BOOLEAN :
                 HandlerStep("start_v1", c, t, users, heap,
                             IF s2 THEN RegisteredIn(ns, c, "get_city") ELSE ns, wt,
                             << m1, send_message(c, "ask_city", "", "", s2) >>, TRUE)

\* get_city (resultv1): the confirmation is sent, and when the send has
\* returned the record is written.
get_city(c, t, ns, wt) ==
    IF t = NoText
    THEN HandlerStep("get_city", c, t, users, heap, ns, wt, << >>, TRUE)
    ELSE \E s \in BOOLEAN :
           LET city == Strip(t)
               conf == send_message(c, "city_ok", city, "", s)
               r == Alloc(users, cycle, wt, c)
           IN  IF s
               THEN HandlerStep("get_city", c, t, DictSet(users, c, r),
                                [ heap EXCEPT ![r] = NewRecord_v1(city) ],
                                ns, wt, << conf >>, TRUE)
               ELSE HandlerStep("get_city", c, t, users, heap, ns, wt, << conf >>, TRUE)

\* stop (resultv1)
stop_v1(c, t, ns, wt) ==
    \E s \in BOOLEAN :
      IF DictHas(users, c)
      THEN HandlerStep("stop_v1", c, t, DictDel(users, c), heap, ns, wt,
                       << send_message(c, "unsubscribed", "", "", s) >>, TRUE)
      ELSE HandlerStep("stop_v1", c, t, users, heap, ns, wt,
                       << send_message(c, "not_subscribed", "", "", s) >>, TRUE)

\* get_weather (resultv1) returns the report, or the "could not get the
\* weather" text when cod is not 200; a connection or translation fault
\* raises.
WeatherOutcomes_v1(city) ==
    IF city \in KnownCities THEN { "ok", "not_ok", "Exception" }
                            ELSE { "not_ok", "Exception" }

\* send_weather_update (resultv1): nothing is caught.
send_weather_update_v1(chat_id, city, w, s) ==
    LET fetch == get_weather(city, "", w)
    IN  IF w = "Exception"
        THEN [ trace |-> << fetch >>, raised |-> TRUE ]
        ELSE [ trace |-> << fetch,
                            send_message(chat_id,
                                         IF w = "ok" THEN "weather" ELSE "weather_unavailable",
                                         city, "", s) >>,
               raised |-> ~s ]

\* A step of the scheduler thread of resultv1; tch tells whether users has
\* lost or gained a key under the iterator of the loop.
SchedStep_v1(op, c, pc, cyc, i, tr, tch) ==
    /\ SchedStep(op, c, pc, cyc, i, tr, prev)
    /\ touched' = tch

\* schedule.run_pending() finds the job due: the for loop starts to iterate
\* over users itself; cycle keeps the keys the iterator saw when it was made.
BroadcastStart_v1 ==
    /\ sched_pc = "sleep"
    /\ SchedStep_v1("send_updates_to_all_users_v1", 0, "for",
                    [ i \in 1..Len(users) |->
                        [ chat_id |-> users[i].chat_id, ref |-> NoRef, res |-> "pending" ] ],
                    1, << >>, FALSE)

\* What the dict iterator can yield next.  A dict that has lost or gained no
\* key since the iterator was made yields its next entry.  A dict whose
\* size is not what it was yields nothing (RuntimeError).  A dict of the
\* same size that has lost and gained keys is iterated from where the
\* iterator stands in the interpreter's entry table, which the deletions
\* and insertions have rearranged in a way that differs between builds of
\* the interpreter: any entry may come next, the same key as before too,
\* and the iterator yields no more entries than the dict had when the
\* iterator was made.
Iterable ==
    IF Len(users) # Len(cycle) \/ idx > Len(cycle) THEN { }
    ELSE IF ~touched THEN { idx }
    ELSE 1..Len(users)

\* One iteration of the for loop over the live dict.  An exception of the
\* delivery is caught by no frame of the scheduler thread: the thread ends.
Deliver_v1 ==
    /\ sched_pc = "for"
    /\ \E i \in Iterable :
         LET chat_id == users[i].chat_id
             user_info == heap[users[i].ref]
         IN  \E w \in WeatherOutcomes_v1(user_info.city), s \in BOOLEAN :
               LET upd == send_weather_update_v1(chat_id, user_info.city, w, s)
               IN  IF upd.raised
                   THEN SchedStep_v1("deliver_v1", chat_id, "dead", << >>, 0,
                                     upd.trace, FALSE)
                   ELSE SchedStep_v1("deliver_v1", chat_id, "for",
                                     [ j \in 1..Len(cycle) |->
                                         IF cycle[j].chat_id = chat_id
                                         THEN [ cycle[j] EXCEPT !.res = "sent" ]
                                         ELSE cycle[j] ],
                                     idx + 1, upd.trace, touched)

\* RuntimeError leaves the loop, the job, run_pending and
\* schedule_hourly_updates: "dictionary changed size during iteration"
\* whenever the size is not what it was, "dictionary keys changed during
\* iteration" when the iterator has yielded as many entries as the dict had
\* and finds one more in the rearranged table.
IterationError_v1 ==
    /\ sched_pc = "for"
    /\ \/ Len(users) # Len(cycle)
       \/ touched /\ idx > Len(cycle) /\ Len(users) > 0
    /\ SchedStep_v1("iteration_error_v1", 0, "dead", << >>, 0, << >>, FALSE)

\* The loop is over; schedule_hourly_updates sleeps and runs pending again.
\* The iterator of a dict that has lost and gained keys can reach the end
\* of the rearranged table before it has yielded every entry.
BroadcastEnd_v1 ==
    /\ sched_pc = "for" /\ Len(users) = Len(cycle)
    /\ idx > Len(cycle) \/ touched
    /\ SchedStep_v1("completed_v1", 0, "sleep", << >>, 0, << >>, FALSE)

Texts_v1 == { "/start", "/stop", " Paris " }

\* The handlers telebot calls for a message (resultv1).
Calls_v1(c, t) ==
    IF ~Idle(c) THEN next_step[c]
    ELSE IF t = NoText THEN << >>
    ELSE CASE extract_command(t) = "start" -> << "start_v1" >>
           [] extract_command(t) = "stop" -> << "stop_v1" >>
           [] OTHER -> << >>

\* The call of handler f (resultv1).
Handle_v1(f, c, t, ns, wt) ==
    \/ f = "start_v1" /\ start_v1(c, t, ns, wt)
    \/ f = "get_city" /\ get_city(c, t, ns, wt)
    \/ f = "stop_v1" /\ stop_v1(c, t, ns, wt)

\* A worker thread runs one of the calls telebot made (resultv1); a key that
\* users loses or gains while the loop of the scheduler is running is lost
\* or gained under its iterator.
Worker_v1 ==
    \E c \in Chats :
        \E k \in 1..Len(waiting[c]) :
            /\ Handle_v1(waiting[c][k].f, c, waiting[c][k].text, next_step,
                         [ waiting EXCEPT ![c] = Without(@, k) ])
            /\ touched' = (touched \/ (sched_pc = "for" /\ Keys(users') # Keys(users)))

Scheduler_v1 ==
    BroadcastStart_v1 \/ Deliver_v1 \/ IterationError_v1 \/ BroadcastEnd_v1

Next_v1 ==
    \/ ThreadPool([ m \in Chats \X Texts_v1 |-> Calls_v1(m[1], m[2]) ], TRUE)
    \/ Worker_v1
    \/ Scheduler_v1
Spec_v1 == Init /\ [][Next_v1]_vars

\* ================================================================== claims
\* What a step's calls were.
Sends(tr) == SelectSeq(tr, LAMBDA e : e.ev = "send_message")
Delivered(tr) == SelectSeq(tr, LAMBDA e : e.ev = "send_message" /\ e.ok)
Fetches(tr) == SelectSeq(tr, LAMBDA e : e.ev = "get_weather")
Kinds(tr) == [ i \in 1..Len(tr) |-> tr[i].kind ]

\* The last step was process_city_input on a text whose validation fetch
\* was made and succeeded / failed.
CityValidated ==
    /\ last.op = "process_city_input"
    /\ Len(trace) >= 1 /\ trace[1].ev = "get_weather" /\ trace[1].ok
CityRejected ==
    /\ last.op = "process_city_input"
    /\ Len(trace) >= 1 /\ trace[1].ev = "get_weather" /\ ~trace[1].ok

\* C3 (as claimed): whenever the validation fetch of a city input fails, the
\* chat stays in AwaitingCity and the store is exactly as before.
C3_RejectedCityStaysAwaitingCity ==
    [][ CityRejected' =>
          /\ next_step'[last'.chat_id] =
                 Append(next_step[last'.chat_id], "process_city_input")
          /\ Store(users', heap') = Store(users, heap)
          /\ users' = users ]_vars

\* C4 (as claimed): after a city input that passes validation the store holds
\* {city, ru} for the chat, exactly two messages were sent, the confirmation
\* and then the weather report for that city, and the chat is Idle.
C4_ValidCityTwoMessages ==
    CityValidated =>
        LET c == last.chat_id
            city == Strip(last.text)
        IN  /\ Store(users, heap)[c] = [ city |-> city, language |-> "ru" ]
            /\ Kinds(Delivered(trace)) = << "city_ok", "weather" >>
            /\ Delivered(trace)[2].city = city
            /\ next_step[c] = << >>

\* C4 (amended): a city input that passes validation leaves {stripped city,
\* ru} in the store for the chat and registers no next step: the chat is
\* Idle unless another handler of the chat registered one while this call
\* was waiting.  Every message goes to the chat and the first one attempted
\* is the confirmation.  A refused confirmation is followed by the generic
\* error message and no second fetch is made.  After an accepted one the
\* immediate update's own second fetch decides: when it succeeds, the
\* weather report for that city in ru and nothing more, whether or not the
\* report is accepted; when it fails with WeatherServiceError, an error
\* report, followed by the generic error message exactly when the error
\* report is refused; when it fails otherwise, nothing.
C4_ValidCityStoredAndAnnounced ==
    [][ CityValidated' =>
          LET c == last'.chat_id
              city == Strip(last'.text)
              sent == Sends(trace')
              second == Fetches(trace')[2].kind
              report == IF second = "WeatherServiceError" THEN "weather_error"
                                                          ELSE "weather_data_error"
          IN  /\ Store(users', heap')[c] = [ city |-> city, language |-> "ru" ]
              /\ next_step' = next_step
              /\ Len(sent) >= 1 /\ sent[1].kind = "city_ok" /\ sent[1].city = city
              /\ \A i \in 1..Len(sent) : sent[i].to = c
              /\ ~sent[1].ok =>
                   /\ Len(Fetches(trace')) = 1
                   /\ Kinds(sent) = << "city_ok", "generic_error" >>
              /\ sent[1].ok =>
                   /\ Len(Fetches(trace')) = 2
                   /\ second = "ok" =>
                        /\ Kinds(sent) = << "city_ok", "weather" >>
                        /\ sent[2].city = city /\ sent[2].lang = "ru"
                   /\ IsServiceError(second) =>
                        Kinds(sent) = IF sent[2].ok
                                      THEN << "city_ok", report >>
                                      ELSE << "city_ok", report, "generic_error" >>
                   /\ (second # "ok" /\ ~IsServiceError(second)) =>
                        Kinds(sent) = << "city_ok" >> ]_vars

\* C4 witness: a chat has registered " Paris ", both fetches succeeded and
\* the confirmation and the report were delivered.
C4_Witness ==
    /\ CityValidated /\ last.text = " Paris "
    /\ Kinds(Delivered(trace)) = << "city_ok", "weather" >>
    /\ Store(users, heap)[last.chat_id].city = "Paris"

\* The chat of the last step has a subscriber with a city.
HasCity(u, h, c) == DictHas(u, c) /\ Store(u, h)[c].city # ""

\* C5 (as claimed): /now for a chat that is absent or has an empty city only
\* prompts for a city: no fetch, no weather or error report, store unchanged.
C5_NowNeedsCity ==
    [][ (last'.op = "send_current_weather" /\ ~HasCity(users, heap, last'.chat_id)) =>
          /\ Fetches(trace') = << >>
          /\ Kinds(Sends(trace')) = << "need_city_start" >>
          /\ Store(users', heap') = Store(users, heap) ]_vars

\* The last step was process_language_selection on a valid / an invalid text.
ValidChoice(t) == t # NoText /\ Lower(t) \in DOMAIN lang_map
LanguageChosen == last.op = "process_language_selection" /\ ValidChoice(last.text)
LanguageRefused ==
    /\ last.op = "process_language_selection"
    /\ last.text # NoText /\ ~ValidChoice(last.text)

\* C6 (as claimed): after a text that is no language choice the chat was
\* prompted again and is still in AwaitingLanguage, the store unchanged.
C6_InvalidChoiceStaysAwaitingLanguage ==
    [][ LanguageRefused' =>
          /\ Kinds(Sends(trace')) = << "bad_language" >>
          /\ next_step'[last'.chat_id] =
                 Append(next_step[last'.chat_id], "process_language_selection")
          /\ Store(users', heap') = Store(users, heap) ]_vars

C8_StopRemoves ==
    [][ last'.op = "stop_updates" =>
          LET c == last'.chat_id
          IN  /\ ~DictHas(users', c)
              /\ Len(trace') = 1 /\ trace'[1].ev = "send_message" /\ trace'[1].to = c
              /\ trace'[1].kind = IF DictHas(users, c) THEN "unsubscribed"
                                                      ELSE "not_subscribed"
              /\ ~DictHas(users, c) => users' = users /\ heap' = heap
              /\ \A d \in Chats \ {c} :
                    /\ Store(users', heap')[d] = Store(users, heap)[d]
                    /\ DictHas(users', d) <=> DictHas(users, d) ]_vars

\* C8 witness: a subscriber has just been told it is unsubscribed.
C8_Witness ==
    /\ last.op = "stop_updates"
    /\ Kinds(Delivered(trace)) = << "unsubscribed" >>
    /\ ~DictHas(users, last.chat_id)

\* C9 (as claimed): a valid city entered by an existing subscriber changes
\* only the city of its record; the language chosen before is kept.
C9_CityChangeKeepsLanguage ==
    [][ (CityValidated' /\ DictHas(users, last'.chat_id)) =>
          LET c == last'.chat_id
          IN  /\ Store(users', heap')[c].city = Strip(last'.text)
              /\ Store(users', heap')[c].language = Store(users, heap)[c].language ]_vars

\* The for loop of the running broadcast is over.
LoopOver == sched_pc = "for" /\ idx > Len(cycle)
Failed == { i \in 1..Len(cycle) : cycle[i].res = "failed" }

\* C1: when the loop of a broadcast is over and the delivery failed for
\* exactly one subscriber of the copy, a delivery was attempted for every
\* other subscriber of the copy.
C1_OneFailureOthersAttempted ==
    (LoopOver /\ Cardinality(Failed) = 1) =>
        \A i \in 1..Len(cycle) : cycle[i].res # "pending"

\* C1 witness: a broadcast over all the chats is over; the first delivery
\* failed and every later one was sent.
C1_Witness ==
    /\ LoopOver /\ Len(cycle) = NumChats /\ NumChats >= 2
    /\ cycle[1].res = "failed"
    /\ \A i \in 2..Len(cycle) : cycle[i].res = "sent"

\* C2 (as claimed): no delivery of a broadcast fetches the weather of an
\* empty city or sends a message built for one.
C2_EmptyCityExcluded ==
    last.op = "deliver" => \A i \in 1..Len(trace) : trace[i].city # ""

\* C10 (as claimed): after a delivery of a broadcast run that failed (the
\* fetch or the send raised) the scheduler thread is still in its loop, in
\* the run or waiting for the next tick.
DeliveryFailed ==
    /\ last.op \in { "deliver", "deliver_v1" }
    /\ Len(trace) >= 1 /\ ~trace[Len(trace)].ok
C10_FailingRunKeepsScheduler ==
    DeliveryFailed => sched_pc \in { "for", "sleep" }

\* C10 on resultv2: with the scheduler thread scheduled fairly, broadcast
\* runs start again and again, whatever the runs before them met.
SchedulerTexts == { "/start", "/stop", " Paris " }
SpecSchedulerFair ==
    /\ Init
    /\ [][ThreadPool(CallsOf({ 1 }, SchedulerTexts), FALSE) \/ Worker(FALSE)
            \/ Scheduler]_vars
    /\ WF_vars(Scheduler)
C10_v2_BroadcastsRecur == []<>(last.op = "send_updates_to_all_users")

\* The last step was a delivery of the broadcast whose fetch failed.
FetchFailedInBroadcast ==
    /\ last.op = "deliver"
    /\ Len(trace) >= 1 /\ trace[1].ev = "get_weather" /\ ~trace[1].ok

\* C11 (as claimed): a delivery of the broadcast whose weather fetch failed
\* sends the chat no message of any kind; the failure is only logged.
C11_FetchFailureOnlyLogged ==
    FetchFailedInBroadcast => Sends(trace) = << >>

\* A text that is a command none of the command handlers is registered for.
Unrecognized(t) ==
    /\ extract_command(t) # ""
    /\ extract_command(t) \notin { "start", "help", "stop", "now", "change", "language" }

\* C12 (as claimed): in every conversation state an unrecognized command is
\* answered with the 'unknown command' reply alone and changes neither the
\* conversation state of any chat nor the store.
C12_UnknownCommandAnyState ==
    [][ (Unrecognized(last'.text) /\ last'.op # "process_new_messages") =>
          /\ Kinds(Sends(trace')) = << "unknown_command" >>
          /\ next_step' = next_step
          /\ users' = users /\ Store(users', heap') = Store(users, heap) ]_vars

\* The record a delivery of the broadcast used: the city and the language
\* it gave to get_weather.
Used(tr) == [ city |-> tr[1].city, language |-> tr[1].lang ]

\* C13: every (city, language) pair a delivery of the broadcast uses is what
\* the chat's record in users was at one moment (the last moment the object
\* of the copy was the chat's record), and that record is complete: its
\* language is one a handler writes.
C13_DeliveryUsesCompleteRecord ==
    [][ last'.op = "deliver" =>
          /\ Used(trace') = cycle[idx].stored
          /\ cycle[idx].stored.language \in { "ru", "en" } ]_vars

\* C13 witness: a delivery used {Paris, ru}, the record of the copy, after
\* the chat had registered again and changed its language to en.
C13_Witness ==
    /\ last.op = "deliver"
    /\ Used(trace) = [ city |-> "Paris", language |-> "ru" ]
    /\ DictHas(users, last.chat_id)
    /\ Store(users, heap)[last.chat_id] = [ city |-> "Paris", language |-> "en" ]

\* C14 (as claimed): every delivery of a broadcast uses the city and the
\* language the subscriber had when the copy of the cycle was taken.
C14_DeliveryUsesSnapshot ==
    [][ last'.op = "deliver" => Used(trace') = cycle[idx].snap ]_vars

\* C15: a broadcast that follows a completed one, the keys of users the same
\* from the end of the first to the end of the loop of the second, attempts
\* a delivery for the same chats, in the same order and number, whatever the
\* fetches and the sends of either ended in.
C15_SameAttemptsTwice ==
    (LoopOver /\ prev # NoRun) => Attempted(cycle) = prev

\* C15 witness: the second of two broadcasts over all the chats is over, and
\* a delivery failed in it.
C15_Witness ==
    /\ LoopOver /\ prev # NoRun /\ Len(prev) = NumChats
    /\ Failed # { }

\* C16 (as claimed): no message of the synchronous paths (the city input with
\* its immediate first update, and /now) carries the raw text of the
\* provider's or the connection's error.
C16_SynchronousErrorsSanitized ==
    last.op \in { "process_city_input", "send_current_weather" } =>
        \A i \in 1..Len(trace) : ~trace[i].raw

\* The last step was a step of the scheduler thread of resultv2.
BroadcastStep(op) == op \in { "send_updates_to_all_users", "deliver", "completed" }

\* C17: no step of a broadcast changes users: the subscribed chats, their
\* order and each chat's city and language are after the step what they were
\* before it, also when the fetch or the send of the delivery failed.
C17_BroadcastLeavesStore ==
    [][ BroadcastStep(last'.op) =>
          /\ users' = users
          /\ Subscribed(users') = Subscribed(users)
          /\ Store(users', heap') = Store(users, heap) ]_vars

\* C17 witness: the delivery for a subscriber has just failed and the
\* subscriber is still in users with its city.
C17_Witness ==
    /\ DeliveryFailed /\ last.op = "deliver"
    /\ DictHas(users, last.chat_id)
    /\ Store(users, heap)[last.chat_id].city = "Paris"

\* C18 (as claimed): a delivery of a broadcast sends a weather report only to
\* a chat that is in users: none to a chat whose /stop has been handled and
\* that has not registered a city since.
C18_NoReportAfterStop ==
    (last.op = "deliver" /\ \E i \in 1..Len(trace) :
                               /\ trace[i].ev = "send_message" /\ trace[i].ok
                               /\ trace[i].kind = "weather")
        => DictHas(users, last.chat_id)

\* Every record of users has a language of { ru, en } and a city that is
\* empty or one the provider answers for.
StoreValid ==
    \A c \in Subscribed(users) :
        /\ Store(users, heap)[c].language \in { "ru", "en" }
        /\ Store(users, heap)[c].city \in KnownCities \cup { "" }

\* A step that leaves chat c with a non-empty city it did not have before
\* is process_city_input of that chat, after a validation fetch for that
\* very city that succeeded.
CityWrittenValidated(c) ==
    (/\ DictHas(users', c) /\ Store(users', heap')[c].city # ""
     /\ ~DictHas(users, c) \/ Store(users, heap)[c].city # Store(users', heap')[c].city)
    => /\ last'.op = "process_city_input" /\ last'.chat_id = c
       /\ Len(trace') >= 1 /\ trace'[1].ev = "get_weather" /\ trace'[1].ok
       /\ trace'[1].city = Store(users', heap')[c].city

====
